---- MODULE Spec2Model ----
(***************************************************************************)
(* Model of the a11y-triage duty rotation tool (src/index.js and its two   *)
(* variants src/unnamed/part_000, src/unnamed/part_001).                   *)
(*                                                                         *)
(* Time.  A Date is an integer number of HOURS since the epoch, in UTC.    *)
(* Every shift the program applies to a Date is a whole number of hours    *)
(* (setHours(-24*day), + CYCLE_LENGTH_MS), so the minutes, seconds and     *)
(* milliseconds of a Date never decide a calendar date and are left out.   *)
(* The process's time zone is a fixed whole-hour offset tz (local = UTC +  *)
(* tz); daylight saving changes are left out.                              *)
(*                                                                         *)
(* A date string "YYYY-MM-DD" is the integer day number since the epoch    *)
(* (day 0 = 1970-01-01, a Thursday).  For four-digit years the string      *)
(* order Array.prototype.sort() uses is the order of the day numbers.      *)
(*                                                                         *)
(* A JSON object is a sequence of [key, value] records in insertion order, *)
(* which is the order Object.keys, for..in and JSON.stringify follow for   *)
(* keys that are not array indices (names and date strings are not).       *)
(***************************************************************************)
EXTENDS Integers, Sequences, FiniteSets, TLC

\* ---------------------------------------------------------------- bounds
\* Most history entries an update may reach in Spec (the guard of Update).
MaxHist == 2
\* Most history entries an update may reach in SpecFaults and SpecRotation,
\* where the config file stays as it is (the guard of UpdateCycle).
MaxCycles == 5

\* ------------------------------------------------------ program constants
CYCLE_LENGTH_DAYS == 7
\* DAY_TO_MS in the model's time unit (one hour): 24 h = 24*60*60*1000 ms.
DAY_TO_MS == 24
CYCLE_LENGTH_MS == CYCLE_LENGTH_DAYS * DAY_TO_MS

\* ------------------------------------------------------------ input sets
\* People a config file can name.
Names == {"a", "b", "c"}
\* Contact metadata a config file can give its roster entries.
Metadata == {"m1", "m2"}
\* A person of an old history who is in no roster.
Gone == "z"
\* The text `undefined` turns into inside a template string.
Undefined == "undefined"
\* The empty person name of a damaged history file.
Blank == ""
Null == "null"
\* The two builds: index.js and part_000 start cycles on Sunday, part_001
\* on Monday.
Variants == {"sunday", "monday"}
\* Whole-hour time zone offsets of the process (local = UTC + offset).
Zones == {-8, 0, 1}
\* Clock readings: one full week of days (day 10 = 1970-01-11, a Sunday),
\* early and late in the UTC day.
Clocks == {d * DAY_TO_MS + h : d \in 10..16, h \in {4, 20}}

\* ------------------------------------------------------------- sequences
Range(s) == {s[i] : i \in 1..Len(s)}

Injective(s) == \A i, j \in 1..Len(s) : s[i] = s[j] => i = j

\* A faulty indexOf: a value that is not found counts as found at index 0.
indexOfOrZero(s, x) ==
  IF \E i \in 1..Len(s) : s[i] = x
  THEN (CHOOSE i \in 1..Len(s) : s[i] = x /\ \A j \in 1..(i - 1) : s[j] # x) - 1
  ELSE 0

\* Array.prototype.indexOf: 0-based index of the first occurrence, or -1.
indexOf(s, x) ==
  IF \E i \in 1..Len(s) : s[i] = x
  THEN (CHOOSE i \in 1..Len(s) : s[i] = x /\ \A j \in 1..(i - 1) : s[j] # x) - 1
  ELSE -1

\* ------------------------------------------------------------ JSON object
Keys(obj) == {obj[i].key : i \in 1..Len(obj)}

\* obj[k]: the value of key k, or Undefined.
Get(obj, k) ==
  IF k \in Keys(obj)
  THEN obj[CHOOSE i \in 1..Len(obj) : obj[i].key = k].value
  ELSE Undefined

\* obj[k] = v: overwrites in place, or appends a new key last.
Put(obj, k, v) ==
  IF k \in Keys(obj)
  THEN [i \in 1..Len(obj) |-> IF obj[i].key = k THEN [key |-> k, value |-> v] ELSE obj[i]]
  ELSE Append(obj, [key |-> k, value |-> v])

KeepDefined(e) == e.value # Undefined

\* JSON.stringify then JSON.parse: members whose value is undefined are
\* dropped, the others keep their order.
Stringify(obj) == SelectSeq(obj, KeepDefined)

\* JavaScript truthiness of a string or undefined value.
Truthy(v) == v # Undefined /\ v # Null /\ v # Blank

\* ----------------------------------------------------------------- dates
\* Date.prototype.getDay in UTC for a day number: 0 = Sunday .. 6 = Saturday.
WeekdayOfDay(d) == (d + 4) % 7

\* The local calendar day of a Date.
LocalDay(t, zone) == (t + zone) \div DAY_TO_MS

\* Date.prototype.getDay: the weekday of the local calendar day.
getDay(t, zone) == WeekdayOfDay(LocalDay(t, zone))

\* Date.prototype.setHours(h): local midnight of the Date's local day, plus
\* h hours (h may be negative or exceed 23).
setHours(t, zone, h) == LocalDay(t, zone) * DAY_TO_MS + h - zone

\* date.toISOString().replace(/T.*$/, ''): the UTC calendar day.
createDateString(t) == t \div DAY_TO_MS

\* new Date("YYYY-MM-DD").getTime(): UTC midnight of that day.
ParseDate(d) == d * DAY_TO_MS

\* A faulty getLastSunday: getDay() is used as it is (no `|| 7`), so a Sunday
\* is left alone.
getLastSundayNoSeven(t, zone) ==
  LET day == getDay(t, zone)
  IN  IF day # 0 THEN setHours(t, zone, -24 * day) ELSE t

\* A faulty getLastSunday: the offset of the Monday build, `day - 1`.
getLastSundayFromMonday(t, zone) ==
  LET day == IF getDay(t, zone) = 0 THEN 7 ELSE getDay(t, zone)
  IN  IF day # 0 THEN setHours(t, zone, -24 * (day - 1)) ELSE t

getLastSunday(t, zone) ==
  LET day == IF getDay(t, zone) = 0 THEN 7 ELSE getDay(t, zone)
  IN  IF day # 0 THEN setHours(t, zone, -24 * day) ELSE t

\* A faulty getLastMonday: the weekday is taken without `|| 7`, so a Sunday
\* counts as day 0.
getLastMondayNoSeven(t, zone) ==
  LET day == getDay(t, zone)
  IN  IF day # 1 THEN setHours(t, zone, -24 * (day - 1)) ELSE t

getLastMonday(t, zone) ==
  LET day == IF getDay(t, zone) = 0 THEN 7 ELSE getDay(t, zone)
  IN  IF day # 1 THEN setHours(t, zone, -24 * (day - 1)) ELSE t

\* ----------------------------------------------------------------- state
VARIABLES
  variant,      \* which build runs: "sunday" (index.js, part_000) or "monday" (part_001)
  tz,           \* the process's time zone offset in hours
  weekStart,    \* the last direct call of getLastSunday / getLastMonday
  config,       \* config.json: the roster, in order, and its metadata
  historyFile,  \* history.json
  distDir,      \* whether the directory dist/ exists
  snapshot,     \* dist/triage.json
  ics,          \* dist/a11y-triage.ics
  run           \* what the last process run did: command, outcome, warnings

vars == <<variant, tz, weekStart, config, historyFile, distDir, snapshot, ics, run>>

\* Rosters: the keys of config.triagers, distinct by construction, in order.
Rosters == {s \in UNION {[1..n -> Names] : n \in 0..Cardinality(Names)} : Injective(s)}

Configs == [names : Rosters, meta : Metadata]

\* triagers[name] of the config file.
TriagerData(cfg, name) == IF name \in Range(cfg.names) THEN cfg.meta ELSE Undefined

HistoryOf(obj) == [state |-> "ok", dutyCycleHistory |-> obj]

SnapshotOf(triagers, dates) ==
  [state |-> "ok", hasTriagers |-> TRUE, hasDates |-> TRUE,
   triagers |-> triagers, dates |-> dates]

NoFile == [state |-> "missing", hasTriagers |-> FALSE, hasDates |-> FALSE,
           triagers |-> <<>>, dates |-> <<>>]

IcsOf(events) == [state |-> "ok", events |-> events]

NoIcs == [state |-> "missing", events |-> <<>>]

RunOf(cmd, outcome, warn, mkdir) ==
  [cmd |-> cmd, outcome |-> outcome, warn |-> warn, mkdir |-> mkdir]

\* -------------------------------------------------------- rotation engine
RECURSIVE SortSet(_)
\* Array.prototype.sort() of a set of date strings, ascending.
SortSet(S) ==
  IF S = {} THEN <<>>
  ELSE LET m == CHOOSE x \in S : \A y \in S : x <= y
       IN  <<m>> \o SortSet(S \ {m})

\* A faulty getLastDutyCycle: the keys are not sorted, the last one written
\* counts as the last cycle.
getLastDutyCycleUnsorted(dutyCycleHistory) ==
  IF Len(dutyCycleHistory) < 1
  THEN [fatal |-> FALSE, none |-> TRUE, lastDutyDate |-> 0, lastTriagerName |-> Undefined]
  ELSE LET lastEntry == dutyCycleHistory[Len(dutyCycleHistory)]
       IN  IF ~Truthy(lastEntry.value)
           THEN [fatal |-> TRUE, none |-> FALSE, lastDutyDate |-> lastEntry.key,
                 lastTriagerName |-> Undefined]
           ELSE [fatal |-> FALSE, none |-> FALSE, lastDutyDate |-> lastEntry.key,
                 lastTriagerName |-> lastEntry.value]

getLastDutyCycle(dutyCycleHistory) ==
  LET dutyDates == SortSet(Keys(dutyCycleHistory))
  IN  IF Len(dutyDates) < 1
      THEN [fatal |-> FALSE, none |-> TRUE, lastDutyDate |-> 0, lastTriagerName |-> Undefined]
      ELSE LET lastDutyDate == dutyDates[Len(dutyDates)]
           IN  IF ~Truthy(Get(dutyCycleHistory, lastDutyDate))
               THEN [fatal |-> TRUE, none |-> FALSE, lastDutyDate |-> lastDutyDate,
                     lastTriagerName |-> Undefined]
               ELSE [fatal |-> FALSE, none |-> FALSE, lastDutyDate |-> lastDutyDate,
                     lastTriagerName |-> Get(dutyCycleHistory, lastDutyDate)]

\* The start of the week the build counts from: getLastSunday(new Date()) in
\* index.js and part_000, getLastMonday(new Date()) in part_001.
getLastWeekStart(v, now, zone) ==
  IF v = "sunday" THEN getLastSunday(now, zone) ELSE getLastMonday(now, zone)

\* A faulty nextTriagerName: the index is not taken modulo the roster length
\* but stops at the last entry.
nextTriagerNameClamped(triagerNames, lastTriagerIdx) ==
  IF Len(triagerNames) = 0 THEN Undefined
  ELSE IF lastTriagerIdx + 1 >= Len(triagerNames) THEN triagerNames[Len(triagerNames)]
  ELSE triagerNames[lastTriagerIdx + 2]

\* A faulty nextTriagerName: the index of a person who was found is not
\* advanced, so that person is assigned again.
nextTriagerNameSame(triagerNames, lastTriagerIdx) ==
  IF Len(triagerNames) = 0 THEN Undefined
  ELSE IF lastTriagerIdx = -1 THEN triagerNames[1]
  ELSE triagerNames[(lastTriagerIdx % Len(triagerNames)) + 1]

\* (lastTriagerIdx + 1) % triagerNames.length: with an empty roster this is
\* NaN, and triagerNames[NaN] is undefined.
nextTriagerName(triagerNames, lastTriagerIdx) ==
  IF Len(triagerNames) = 0 THEN Undefined
  ELSE triagerNames[((lastTriagerIdx + 1) % Len(triagerNames)) + 1]

\* A faulty nextDutyDate: the cycle length is added in days to a time in
\* milliseconds, which leaves the date where it was.
nextDutyDateForgotMs(lastDutyDate) ==
  createDateString(ParseDate(lastDutyDate) + CYCLE_LENGTH_DAYS)

nextDutyDate(lastDutyDate) == createDateString(ParseDate(lastDutyDate) + CYCLE_LENGTH_MS)

generateDutyCycle(dutyCycleHistory, triagerNames, v, now, zone) ==
  LET last == getLastDutyCycle(dutyCycleHistory)
      first == last.none \/ ~Truthy(last.lastTriagerName)
      lastDutyDate == IF first THEN createDateString(getLastWeekStart(v, now, zone))
                      ELSE last.lastDutyDate
      lastTriagerIdx == IF first THEN -1 ELSE indexOf(triagerNames, last.lastTriagerName)
      warn == IF first THEN {"no-history"}
              ELSE IF lastTriagerIdx = -1 THEN {"not-in-config"} ELSE {}
  IN  IF last.fatal
      THEN [fatal |-> TRUE, date |-> 0, triagerName |-> Undefined, warn |-> {}, readClock |-> FALSE]
      ELSE [fatal |-> FALSE, date |-> nextDutyDate(lastDutyDate),
            triagerName |-> nextTriagerName(triagerNames, lastTriagerIdx),
            warn |-> warn, readClock |-> first]

\* -------------------------------------------------------- artifact writer
\* A faulty check: the two mappings of a parsed snapshot are not validated.
appendDutyCycleThrowsUnparsed(snap) == snap.state # "ok"

\* Whether appendDutyCycle throws: dist/triage.json cannot be read or parsed,
\* or lacks one of its two mappings.
appendDutyCycleThrows(snap) ==
  snap.state # "ok" \/ ~snap.hasDates \/ ~snap.hasTriagers

\* A faulty appendDutyCycle: the person's metadata is never stored.
appendDutyCycleNoSeed(snap, date, triagerName, triagerData) ==
  SnapshotOf(Stringify(snap.triagers),
             Stringify(Put(snap.dates, date, triagerName)))

\* The snapshot appendDutyCycle writes.
appendDutyCycle(snap, date, triagerName, triagerData) ==
  LET triagers == IF ~Truthy(Get(snap.triagers, triagerName))
                  THEN Put(snap.triagers, triagerName, triagerData)
                  ELSE snap.triagers
      dutyStartDates == Put(snap.dates, date, triagerName)
  IN  SnapshotOf(Stringify(triagers), Stringify(dutyStartDates))

writeToHistory(dutyCycleHistory) == HistoryOf(Stringify(dutyCycleHistory))

\* One calendar event of generateIcsFile.
IcsEvent(dutyCycleDate, triagerName) ==
  [start |-> ParseDate(dutyCycleDate),
   end |-> ParseDate(dutyCycleDate) + CYCLE_LENGTH_MS,
   summary |-> triagerName,
   allDay |-> TRUE]

generateIcsFile(dutyCycleHistory) ==
  IcsOf([i \in 1..Len(dutyCycleHistory) |->
           IcsEvent(dutyCycleHistory[i].key, dutyCycleHistory[i].value)])

\* ------------------------------------------------------------- operations
\* The state runReset leaves: both files hold empty mappings and the
\* calendar has no event.
EmptySnapshot == SnapshotOf(<<>>, <<>>)

EmptyHistory == HistoryOf(<<>>)

EmptyIcs == generateIcsFile(<<>>)

\* A faulty runUpdate: the history file is written before the snapshot is
\* read and validated.
runUpdateHistoryFirst(now) ==
  LET readable == historyFile.state = "ok"
      dutyCycleHistory == historyFile.dutyCycleHistory
      cycle == generateDutyCycle(dutyCycleHistory, config.names, variant, now, tz)
      engineThrows == ~readable \/ cycle.fatal
      updated == Put(dutyCycleHistory, cycle.date, cycle.triagerName)
  IN  /\ IF engineThrows
         THEN /\ run' = RunOf("update", "fatal", {}, FALSE)
              /\ UNCHANGED <<historyFile, distDir, snapshot, ics>>
         ELSE IF appendDutyCycleThrows(snapshot)
         THEN /\ historyFile' = writeToHistory(updated)
              /\ run' = RunOf("update", "fatal", cycle.warn, FALSE)
              /\ UNCHANGED <<distDir, snapshot, ics>>
         ELSE /\ snapshot' = appendDutyCycle(snapshot, cycle.date, cycle.triagerName,
                                             TriagerData(config, cycle.triagerName))
              /\ distDir' = TRUE
              /\ historyFile' = writeToHistory(updated)
              /\ ics' = generateIcsFile(updated)
              /\ run' = RunOf("update", "ok", cycle.warn, ~distDir)
      /\ UNCHANGED <<variant, tz, weekStart, config>>

\* `node index.js update`; `now` is what `new Date()` returns if the run
\* reads the clock.
runUpdate(now) ==
  LET readable == historyFile.state = "ok"
      dutyCycleHistory == historyFile.dutyCycleHistory
      cycle == generateDutyCycle(dutyCycleHistory, config.names, variant, now, tz)
      engineThrows == ~readable \/ cycle.fatal
      updated == Put(dutyCycleHistory, cycle.date, cycle.triagerName)
  IN  /\ IF engineThrows \/ appendDutyCycleThrows(snapshot)
         THEN /\ run' = RunOf("update", "fatal",
                              IF engineThrows THEN {} ELSE cycle.warn, FALSE)
              /\ UNCHANGED <<historyFile, distDir, snapshot, ics>>
         ELSE /\ snapshot' = appendDutyCycle(snapshot, cycle.date, cycle.triagerName,
                                             TriagerData(config, cycle.triagerName))
              /\ distDir' = TRUE
              /\ historyFile' = writeToHistory(updated)
              /\ ics' = generateIcsFile(updated)
              /\ run' = RunOf("update", "ok", cycle.warn, ~distDir)
      /\ UNCHANGED <<variant, tz, weekStart, config>>

\* A faulty runReset: the output directory is not created, so writing
\* dist/triage.json into a missing directory throws before anything is reset.
runResetNoMkdir ==
  IF distDir
  THEN /\ snapshot' = EmptySnapshot
       /\ historyFile' = writeToHistory(<<>>)
       /\ ics' = generateIcsFile(<<>>)
       /\ run' = RunOf("reset", "ok", {}, FALSE)
       /\ UNCHANGED <<variant, tz, weekStart, config, distDir>>
  ELSE /\ run' = RunOf("reset", "fatal", {}, FALSE)
       /\ UNCHANGED <<variant, tz, weekStart, config, historyFile, distDir, snapshot, ics>>

\* `node index.js reset`.
runReset ==
  /\ distDir' = TRUE
  /\ snapshot' = EmptySnapshot
  /\ historyFile' = writeToHistory(<<>>)
  /\ ics' = generateIcsFile(<<>>)
  /\ run' = RunOf("reset", "ok", {}, ~distDir)
  /\ UNCHANGED <<variant, tz, weekStart, config>>

\* A faulty runPublish: the callback rethrows the error it is given.
runPublishThrows(err) ==
  /\ run' = IF err THEN RunOf("publish", "fatal", {"publish-error"}, FALSE)
            ELSE RunOf("publish", "ok", {"publish-success"}, FALSE)
  /\ UNCHANGED <<variant, tz, weekStart, config, historyFile, distDir, snapshot, ics>>

\* `node index.js publish`: the callback of ghpages.publish only logs.
runPublish(err) ==
  /\ run' = RunOf("publish", "ok",
                  IF err THEN {"publish-error"} ELSE {"publish-success"}, FALSE)
  /\ UNCHANGED <<variant, tz, weekStart, config, historyFile, distDir, snapshot, ics>>

\* A faulty dispatch: a default case that falls into the reset.
runOtherResets ==
  /\ snapshot' = EmptySnapshot
  /\ distDir' = TRUE
  /\ historyFile' = writeToHistory(<<>>)
  /\ ics' = generateIcsFile(<<>>)
  /\ run' = RunOf("other", "ok", {}, ~distDir)
  /\ UNCHANGED <<variant, tz, weekStart, config>>

\* `node index.js` with any other command, or none: no case of the switch.
runOther ==
  /\ run' = RunOf("other", "ok", {}, FALSE)
  /\ UNCHANGED <<variant, tz, weekStart, config, historyFile, distDir, snapshot, ics>>

\* ------------------------------------------------------------ environment
Idle == RunOf("none", "ok", {}, FALSE)

InsertAt(s, i, x) == SubSeq(s, 1, i - 1) \o <<x>> \o SubSeq(s, i, Len(s))

RemoveAt(s, i) == SubSeq(s, 1, i - 1) \o SubSeq(s, i + 1, Len(s))

SwapAt(s, i) == [j \in 1..Len(s) |-> IF j = i THEN s[i + 1] ELSE IF j = i + 1 THEN s[i] ELSE s[j]]

\* One edit of the roster: a person joins at some place, a person leaves,
\* or two neighbours change places.  Every roster is some edits away.
RosterEdits(r) ==
  {InsertAt(r, i, x) : i \in 1..(Len(r) + 1), x \in Names \ Range(r)}
    \cup {RemoveAt(r, i) : i \in 1..Len(r)}
    \cup {SwapAt(r, i) : i \in 1..(Len(r) - 1)}

\* Someone edits config.json between two runs: the roster, or the metadata.
EditConfig ==
  /\ \/ \E r \in RosterEdits(config.names) : config' = [config EXCEPT !.names = r]
     \/ \E m \in Metadata \ {config.meta} : config' = [config EXCEPT !.meta = m]
  /\ run' = Idle
  /\ UNCHANGED <<variant, tz, weekStart, historyFile, distDir, snapshot, ics>>

\* The output directory is deleted (a fresh checkout has none).
RemoveDist ==
  /\ distDir
  /\ distDir' = FALSE
  /\ snapshot' = NoFile
  /\ ics' = NoIcs
  /\ run' = Idle
  /\ UNCHANGED <<variant, tz, weekStart, config, historyFile>>

SnapshotDamages == {"missing", "malformed", "no-triagers", "no-dates"}

\* dist/triage.json is deleted, cut short, or loses one of its two mappings.
DamageSnapshot ==
  /\ snapshot.state = "ok" /\ snapshot.hasTriagers /\ snapshot.hasDates
  /\ \E kind \in SnapshotDamages :
       snapshot' =
         IF kind = "missing" THEN NoFile
         ELSE IF kind = "malformed" THEN [NoFile EXCEPT !.state = "malformed"]
         ELSE IF kind = "no-triagers"
              THEN [snapshot EXCEPT !.hasTriagers = FALSE, !.triagers = <<>>]
              ELSE [snapshot EXCEPT !.hasDates = FALSE, !.dates = <<>>]
  /\ run' = Idle
  /\ UNCHANGED <<variant, tz, weekStart, config, historyFile, distDir, ics>>

HistoryDamages == {"missing", "malformed", "no-key", "blank", "null"}

\* history.json is deleted, cut short, loses its dutyCycleHistory mapping, or
\* has the person of its chronologically last entry blanked.
DamageHistory ==
  /\ historyFile.state = "ok"
  /\ \E kind \in HistoryDamages :
       LET h == historyFile.dutyCycleHistory
           last == getLastDutyCycle(h)
       IN  /\ kind \in {"blank", "null"} => ~last.none /\ ~last.fatal
           /\ historyFile' =
                IF kind = "blank" THEN HistoryOf(Put(h, last.lastDutyDate, Blank))
                ELSE IF kind = "null" THEN HistoryOf(Put(h, last.lastDutyDate, Null))
                ELSE [state |-> kind, dutyCycleHistory |-> <<>>]
  /\ run' = Idle
  /\ UNCHANGED <<variant, tz, weekStart, config, distDir, snapshot, ics>>

\* ---------------------------------------------------------- specification
\* No week-start function has been called on its own.
NoCall == [fn |-> "none", arg |-> 0, result |-> 0]

Init ==
  /\ variant \in Variants
  /\ tz \in Zones
  /\ weekStart = NoCall
  /\ config \in Configs
  /\ historyFile = EmptyHistory
  /\ distDir = TRUE
  /\ snapshot = EmptySnapshot
  /\ ics = EmptyIcs
  /\ run = RunOf("reset", "ok", {}, FALSE)

Entries == IF historyFile.state = "ok" THEN Len(historyFile.dutyCycleHistory) ELSE 0

\* The clock readings that make a difference to an update: the engine reads
\* the clock only when it finds no history.
Readings ==
  IF historyFile.dutyCycleHistory = <<>> THEN Clocks
  ELSE {CHOOSE now \in Clocks : TRUE}

Update == Entries < MaxHist /\ \E now \in Readings : runUpdate(now)

Reset == runReset

Publish == \E err \in BOOLEAN : runPublish(err)

Other == runOther

Next ==
  \/ Update
  \/ Reset
  \/ Publish
  \/ Other
  \/ EditConfig

\* Normal operation: runs of the tool, and edits of config.json between them.
Spec == Init /\ [][Next]_vars

\* An update under a config that does not change.
UpdateCycle == Entries < MaxCycles /\ \E now \in Readings : runUpdate(now)

NextFaults ==
  \/ UpdateCycle
  \/ Reset
  \/ Publish
  \/ Other
  \/ RemoveDist
  \/ DamageSnapshot
  \/ DamageHistory

\* Runs of the tool under one config, with files lost or damaged between them.
SpecFaults == Init /\ [][NextFaults]_vars

\* Dates of the entries a history may hold before the first run of
\* SpecRotation; every cycle date an update computes from Clocks is later.
SeedDates == {1, 8}

SeedEntries == [key : SeedDates, value : Names \cup {Gone}]

\* Histories the rotation may start from: empty, one entry on the later seed
\* date, or two entries in either insertion order; their persons may be in
\* the roster or not.
SeedHistories ==
  {<<>>} \cup {<<e>> : e \in {f \in SeedEntries : \A g \in SeedEntries : g.key <= f.key}}
         \cup {p \in SeedEntries \X SeedEntries : p[1].key # p[2].key}

\* The snapshot an earlier run under metadata "m1" wrote for a history.
SeedSnapshot(h) ==
  LET names == {h[i].value : i \in 1..Len(h)}
      first(n) == CHOOSE i \in 1..Len(h) : h[i].value = n /\ \A j \in 1..(i - 1) : h[j].value # n
      order == SelectSeq([i \in 1..Len(h) |-> IF first(h[i].value) = i THEN h[i].value ELSE Undefined],
                         LAMBDA n : n # Undefined)
  IN  SnapshotOf([i \in 1..Len(order) |-> [key |-> order[i], value |-> "m1"]], h)

InitRotation ==
  /\ variant \in Variants
  /\ tz \in Zones
  /\ weekStart = NoCall
  /\ config \in {c \in Configs : c.names # <<>> /\ c.meta = "m1"}
  /\ \E h \in SeedHistories :
       /\ historyFile = HistoryOf(h)
       /\ snapshot = SeedSnapshot(h)
       /\ ics = generateIcsFile(h)
  /\ distDir = TRUE
  /\ run = Idle

NextRotation == UpdateCycle

\* Repeated updates under a fixed non-empty roster, from any history.
SpecRotation == InitRotation /\ [][NextRotation]_vars

\* The scheduled job runs the update again and again: weak fairness of
\* UpdateCycle, written out with its enabling condition (in SpecRotation an
\* update always succeeds, so it is enabled exactly while Entries < MaxCycles).
UpdateFairness == []<>(Entries >= MaxCycles) \/ []<><<UpdateCycle>>_vars

FairRotation == SpecRotation /\ UpdateFairness

\* The Date objects handed to the week-start functions: every hour of two
\* weeks, so every weekday at every hour in every zone of Zones.
FirstDay == 10

LastDay == 23

Dates == {d * DAY_TO_MS + h : d \in FirstDay..LastDay, h \in 0..23}

\* getLastSunday(date) of index.js, called on a Date object.
CallGetLastSunday ==
  /\ \E date \in Dates :
       weekStart' = [fn |-> "getLastSunday", arg |-> date,
                     result |-> getLastSunday(date, tz)]
  /\ UNCHANGED <<variant, tz, config, historyFile, distDir, snapshot, ics, run>>

\* getLastMonday(date) of the Monday build, called on a Date object.
CallGetLastMonday ==
  /\ \E date \in Dates :
       weekStart' = [fn |-> "getLastMonday", arg |-> date,
                     result |-> getLastMonday(date, tz)]
  /\ UNCHANGED <<variant, tz, config, historyFile, distDir, snapshot, ics, run>>

InitWeekStart ==
  /\ Init
  /\ config.names = <<>>
  /\ config.meta = "m1"
  /\ variant = "sunday"

NextWeekStart ==
  \/ CallGetLastSunday
  \/ CallGetLastMonday

\* The two week-start functions applied to any date in any zone.
SpecWeekStart == InitWeekStart /\ [][NextWeekStart]_vars

\* ================================================================ claims
\* Vocabulary of the properties, stated without the program's own helpers.
Roster == config.names

Hist == historyFile.dutyCycleHistory

Persons(obj) == {obj[i].value : i \in 1..Len(obj)}

LastDate(obj) == CHOOSE k \in Keys(obj) : \A j \in Keys(obj) : j <= k

PersonOn(obj, k) == obj[CHOOSE i \in 1..Len(obj) : obj[i].key = k].value

LastPerson(obj) == PersonOn(obj, LastDate(obj))

\* The i-th smallest element of a set of dates.
Nth(S, i) == CHOOSE k \in S : Cardinality({j \in S : j < k}) = i - 1

\* The roster entry after person p, the first one after the last.
Successor(roster, p) ==
  LET i == CHOOSE j \in 1..Len(roster) : roster[j] = p
  IN  roster[(i % Len(roster)) + 1]

\* The persons the updates of this behaviour assigned, oldest first: the
\* entries of the history that were not there at the start.
Assigned ==
  LET new == {k \in Keys(Hist) : k \notin SeedDates}
  IN  [i \in 1..Cardinality(new) |-> PersonOn(Hist, Nth(new, i))]

IsRotation(w, roster) ==
  \E r \in 0..(Len(roster) - 1) :
    \A j \in 1..Len(roster) : w[j] = roster[((r + j - 1) % Len(roster)) + 1]

C1_Windows ==
  /\ \A i \in 1..(Len(Assigned) - Len(Roster) + 1) :
       IsRotation(SubSeq(Assigned, i, i + Len(Roster) - 1), Roster)
  /\ \A i \in 1..(Len(Assigned) - 1) : Assigned[i + 1] = Successor(Roster, Assigned[i])

C1_EveryUpdateAssigns == Len(Assigned') = Len(Assigned) + 1

C1_Again ==
  \A m \in Names, k \in 0..MaxCycles :
    (Entries = k /\ MaxCycles - k >= Len(Roster) /\ m \in Range(Roster))
      ~> (Entries > k /\ LastPerson(Hist) = m)

\* C1: under a fixed non-empty roster of N distinct names and from any
\* starting history, every update assigns one person, every N consecutive
\* updates assign each roster entry exactly once, in roster order with
\* wrap-around, and as long as N more updates can run every roster member is
\* assigned again.
C1_RoundRobin == []C1_Windows /\ [][C1_EveryUpdateAssigns]_vars /\ C1_Again

\* C1 witness: a roster of three whose rotation started at a person who is in
\* no roster and has gone once around and wrapped.
C1_Witness ==
  /\ Len(Roster) = 3
  /\ Gone \in Persons(Hist)
  /\ Len(Assigned) >= 4
  /\ Assigned[4] = Assigned[1]

\* The state a reset leaves behind.
FreshlyReset ==
  /\ historyFile.state = "ok" /\ Hist = <<>>
  /\ snapshot.state = "ok" /\ snapshot.hasTriagers /\ snapshot.hasDates
  /\ snapshot.triagers = <<>> /\ snapshot.dates = <<>>

\* The latest day on or before day L that falls on weekday w.
DayOnOrBefore(L, w) == CHOOSE d \in (L - 6)..L : (d + 4) % 7 = w

\* The latest day before day L that falls on weekday w.
DayBefore(L, w) == CHOOSE d \in (L - 7)..(L - 1) : (d + 4) % 7 = w

\* The UTC calendar day at the local midnight that starts local day d.
UtcDayOfLocalMidnight(d, zone) == (d * 24 - zone) \div 24

ConfiguredWeekday == IF variant = "sunday" THEN 0 ELSE 1

\* The first cycle date as the program is observed to compute it.
FirstCycleDate(now) ==
  LET today == (now + tz) \div 24
  IN  IF variant = "monday" /\ (today + 4) % 7 = 1
      THEN (now \div 24) + 7
      ELSE UtcDayOfLocalMidnight(DayBefore(today, ConfiguredWeekday), tz) + 7

OneEntry(date, person) == <<[key |-> date, value |-> person]>>

C2_FirstUpdate ==
  \A now \in Clocks :
    (FreshlyReset /\ Roster # <<>> /\ runUpdate(now))
      => /\ historyFile'.state = "ok"
         /\ Hist' = OneEntry(FirstCycleDate(now), Roster[1])

C2_SecondUpdate ==
  (/\ historyFile.state = "ok" /\ Len(Hist) = 1
   /\ Roster # <<>> /\ Hist[1].value = Roster[1]
   /\ run'.cmd = "update")
    => /\ historyFile'.state = "ok"
       /\ Hist' = Append(Hist, [key |-> Hist[1].key + 7,
                                value |-> Roster[(1 % Len(Roster)) + 1]])

\* C2 (amended): after a reset the first update yields a history of exactly
\* one entry whose person is the first roster entry and whose date is 7 days
\* after the UTC calendar date of the week start the build computes: local
\* midnight of the latest Sunday before today (index.js, part_000), or of the
\* latest Monday before today, or now itself when today is a Monday
\* (part_001).  A second update appends the date 7 days later with the
\* second roster entry (the first again when the roster has one entry).
C2_FirstCycle == [][C2_FirstUpdate /\ C2_SecondUpdate]_vars

\* C2 witness: two updates after a reset under a roster of three; the first
\* cycle starts on a day that is not the configured weekday.
C2_Witness ==
  /\ run.cmd = "update" /\ run.outcome = "ok"
  /\ Len(Roster) = 3
  /\ historyFile.state = "ok" /\ Len(Hist) = 2
  /\ Hist[1].value = Roster[1] /\ Hist[2].value = Roster[2]
  /\ (Hist[1].key + 4) % 7 # ConfiguredWeekday

\* C2 as claimed: the first date after a reset is the most recent configured
\* weekday on or before the current date.
C2_Claimed ==
  [][\A now \in Clocks :
       (FreshlyReset /\ Roster # <<>> /\ runUpdate(now))
         => Hist' = OneEntry(DayOnOrBefore((now + tz) \div 24, ConfiguredWeekday),
                             Roster[1])]_vars

\* C3 as claimed: an update run with an empty roster ends in a fatal error
\* and appends no assignment anywhere.
C3_EmptyRosterFatal ==
  (run.cmd = "update" /\ Roster = <<>>) => run.outcome = "fatal"

\* The dates of a history are 7 days apart, taken in chronological order.
C4_Spacing ==
  historyFile.state = "ok" =>
    \A i \in 1..(Cardinality(Keys(Hist)) - 1) :
      Nth(Keys(Hist), i + 1) = Nth(Keys(Hist), i) + 7

\* An update that completes with a roster to pick from appends to a
\* non-empty history the date 7 days after the chronologically last one; any
\* other update leaves the dates as they are.
C4_NextDate ==
  (run'.cmd = "update" /\ historyFile.state = "ok" /\ Hist # <<>>)
    => /\ historyFile'.state = "ok"
       /\ Keys(Hist') = IF run'.outcome = "ok" /\ Roster # <<>>
                        THEN Keys(Hist) \cup {LastDate(Hist) + 7}
                        ELSE Keys(Hist)
       /\ LastDate(Hist) + 7 \notin Keys(Hist)

C5_GrowsByOne ==
  [][(run'.cmd = "update" /\ historyFile.state = "ok")
       => (historyFile'.state = "ok" /\ Len(Hist') = Len(Hist) + 1)]_vars

C6_Kept ==
  (run'.cmd = "update" /\ historyFile.state = "ok")
    => /\ historyFile'.state = "ok"
       /\ Len(Hist') >= Len(Hist)
       /\ SubSeq(Hist', 1, Len(Hist)) = Hist
       /\ \A i \in (Len(Hist) + 1)..Len(Hist') :
            \A k \in Keys(Hist) : Hist'[i].key > k

\* C6: an update keeps every (date, person) entry of the history as it was
\* and in its place; what it adds has a date later than every date that was
\* there.
C6_AppendOnly == [][C6_Kept]_vars

\* C6 witness: an update has added to a history whose entries were not
\* written in chronological order.
C6_Witness ==
  /\ run.cmd = "update" /\ run.outcome = "ok"
  /\ Len(Hist) >= 3
  /\ Hist[1].key > Hist[2].key

C7_Step ==
  (/\ run'.cmd = "update"
   /\ historyFile.state = "ok" /\ Hist # <<>>
   /\ Roster # <<>>
   /\ LastPerson(Hist) \notin Range(Roster))
    => /\ run'.outcome = "ok"
       /\ run'.warn = {"not-in-config"}
       /\ historyFile'.state = "ok"
       /\ Hist' = Append(Hist, [key |-> LastDate(Hist) + 7, value |-> Roster[1]])

\* C7: when the person of the chronologically last history entry is not in
\* the non-empty roster, the update warns, does not fail, and appends the
\* next date with the first roster entry.
C7_FallBackToFirst == [][C7_Step]_vars

\* C7 witness: the person of the first cycle has left the roster and the
\* second update warned and assigned the first roster entry.
C7_Witness ==
  /\ run.cmd = "update" /\ run.outcome = "ok" /\ run.warn = {"not-in-config"}
  /\ historyFile.state = "ok" /\ Len(Hist) = 2
  /\ Hist[1].value \notin Range(Roster)
  /\ Hist[2].value = Roster[1]

C8_Step ==
  (/\ run'.cmd = "update"
   /\ historyFile.state = "ok" /\ Hist # <<>>
   /\ LastPerson(Hist) \in Range(Roster))
    => /\ run'.outcome = "ok"
       /\ run'.warn = {}
       /\ historyFile'.state = "ok"
       /\ Hist' = Append(Hist, [key |-> LastDate(Hist) + 7,
                                value |-> Successor(Roster, LastPerson(Hist))])

\* C8: when the last-assigned person is in the roster read by the update,
\* the update assigns the roster entry right after that person in the
\* current roster order, and the first entry after the last one, whatever
\* the roster was at earlier updates.
C8_NextInRoster == [][C8_Step]_vars

\* C8 witness: the roster changed after the first cycle (its person is not
\* the first roster entry) and the second update wrapped from the last
\* roster entry to the first.
C8_Witness ==
  /\ run.cmd = "update" /\ run.outcome = "ok"
  /\ historyFile.state = "ok" /\ Len(Hist) = 2
  /\ Len(Roster) >= 2
  /\ Hist[1].value = Roster[Len(Roster)]
  /\ Hist[2].value = Roster[1]

C9_Step ==
  run'.cmd = "reset"
    => /\ run'.outcome = "ok"
       /\ distDir'
       /\ historyFile' = [state |-> "ok", dutyCycleHistory |-> <<>>]
       /\ snapshot' = [state |-> "ok", hasTriagers |-> TRUE, hasDates |-> TRUE,
                       triagers |-> <<>>, dates |-> <<>>]
       /\ ics' = [state |-> "ok", events |-> <<>>]

C9_Twice ==
  (run.cmd = "reset" /\ run'.cmd = "reset")
    => <<historyFile, distDir, snapshot, ics>>' = <<historyFile, distDir, snapshot, ics>>

\* C9: from any state, with the output directory or the history and
\* snapshot files missing or malformed, a reset leaves an empty history, a
\* snapshot with two empty mappings and a calendar without events; a second
\* reset changes none of them.
C9_ResetClears == [][C9_Step /\ C9_Twice]_vars

\* C9 witness: a reset that found no output directory and created it.
C9_Witness == run.cmd = "reset" /\ run.mkdir

\* C10 as claimed: after every update or reset that did not fail, the
\* calendar holds exactly one all-day event per history entry, from the
\* entry's date to 7 days later, naming the entry's person.
C10_CalendarIsHistory ==
  (run.cmd \in {"update", "reset"} /\ run.outcome = "ok")
    => /\ ics.state = "ok"
       /\ historyFile.state = "ok"
       /\ Len(ics.events) = Len(Hist)
       /\ \A i \in 1..Len(Hist) :
            ics.events[i] = [start |-> Hist[i].key * 24,
                             end |-> (Hist[i].key + 7) * 24,
                             summary |-> Hist[i].value,
                             allDay |-> TRUE]

\* What a completed update does to the snapshot: the date-to-person mapping
\* gains exactly one pair and keeps the others; the person of that pair gets
\* the roster's current metadata if the snapshot had none for them and keeps
\* its entry otherwise; no other metadata entry changes.
C12_Gain ==
  \E d \in Keys(snapshot'.dates) \ Keys(snapshot.dates) :
    LET p == Get(snapshot'.dates, d)
    IN  /\ Keys(snapshot'.dates) = Keys(snapshot.dates) \cup {d}
        /\ \A k \in Keys(snapshot.dates) :
             Get(snapshot'.dates, k) = Get(snapshot.dates, k)
        /\ p \in Range(Roster)
        /\ Keys(snapshot'.triagers) = Keys(snapshot.triagers) \cup {p}
        /\ \A q \in Keys(snapshot.triagers) :
             Get(snapshot'.triagers, q) = Get(snapshot.triagers, q)
        /\ p \notin Keys(snapshot.triagers) => Get(snapshot'.triagers, p) = config.meta

\* C12 as claimed: every update that ends without error adds the new
\* (date, person) pair to the snapshot's date-to-person mapping, stores the
\* roster's current metadata for a person the snapshot has no entry for, and
\* leaves an existing metadata entry as it is.
C12_SnapshotGains ==
  [][(run'.cmd = "update" /\ run'.outcome = "ok") => C12_Gain]_vars

\* The same under a roster that has at least one person.
C12_SnapshotGainsNonEmpty ==
  [][(run'.cmd = "update" /\ run'.outcome = "ok" /\ Roster # <<>>) => C12_Gain]_vars

\* An update found a metadata entry that differs from the roster's current
\* metadata for the person it assigned.
C12_StaleKept ==
  /\ run.cmd = "update" /\ run.outcome = "ok"
  /\ Hist # <<>>
  /\ Get(snapshot.triagers, LastPerson(Hist)) \notin {Undefined, config.meta}

\* The engine hands a cycle to appendDutyCycle: the roster has a person, the
\* history file is readable and its last entry, if any, names a person.
C13_Appends ==
  /\ Roster # <<>>
  /\ historyFile.state = "ok"
  /\ Hist # <<>> => Truthy(LastPerson(Hist))

\* C13 as claimed: an update that reaches the append to the snapshot while
\* the output directory is absent creates the output directory.
C13_CreatesDist ==
  [][(run'.cmd = "update" /\ C13_Appends /\ ~distDir) => distDir']_vars

\* The files as C14 finds them: the snapshot parses but lacks one of its two
\* mappings, the history parses but lacks its history mapping, or the latest
\* history date has a missing or empty person name.
C14_SnapshotLacksMapping ==
  snapshot.state = "ok" /\ (~snapshot.hasTriagers \/ ~snapshot.hasDates)

C14_HistoryLacksMapping == historyFile.state = "no-key"

C14_LastPersonMissing ==
  historyFile.state = "ok" /\ Hist # <<>> /\ LastPerson(Hist) \in {Null, Blank}

\* C14: an update that finds the snapshot without its metadata mapping or
\* its date mapping, the history file without its history mapping, or the
\* latest history date without a person name ends fatally.
C14_FatalOnBadFiles ==
  [][(/\ run'.cmd = "update"
      /\ \/ C14_SnapshotLacksMapping
         \/ C14_HistoryLacksMapping
         \/ C14_LastPersonMissing)
     => run'.outcome = "fatal"]_vars

\* C14 witness: an update has ended fatally on a snapshot that parses but
\* lacks a mapping, with a readable history whose last entry names a person.
C14_Witness ==
  /\ run.cmd = "update" /\ run.outcome = "fatal"
  /\ C14_SnapshotLacksMapping
  /\ historyFile.state = "ok" /\ Hist # <<>> /\ Truthy(LastPerson(Hist))

\* C15: a publish never ends fatally, whether the collaborator reports
\* success or failure; the report is only logged, and the history, the
\* snapshot and the calendar stay as they were.
C15_PublishOnlyLogs ==
  [][run'.cmd = "publish"
     => /\ run'.outcome = "ok"
        /\ run'.warn \in {{"publish-error"}, {"publish-success"}}
        /\ UNCHANGED <<historyFile, snapshot, ics, distDir>>]_vars

\* C15 witness: the collaborator reported a failure for a history that has
\* an entry, and the publish ended without error.
C15_Witness ==
  /\ run = RunOf("publish", "ok", {"publish-error"}, FALSE)
  /\ historyFile.state = "ok" /\ Hist # <<>>

\* C18: a command other than update, reset and publish, or no command,
\* does not fail and leaves the history, the snapshot, the calendar and the
\* output directory as they were, whatever state they are in.
C18_OtherDoesNothing ==
  [][run'.cmd = "other"
     => /\ run'.outcome = "ok"
        /\ run'.warn = {} /\ ~run'.mkdir
        /\ UNCHANGED <<historyFile, snapshot, ics, distDir, config>>]_vars

\* C18 witness: an unknown command has run on a non-empty history and on
\* an unreadable snapshot.
C18_Witness ==
  /\ run.cmd = "other"
  /\ historyFile.state = "ok" /\ Hist # <<>>
  /\ snapshot.state # "ok"

\* C16: an update that ends fatally leaves the history file, the snapshot,
\* the calendar and the output directory exactly as they were.
C16_FatalChangesNothing ==
  [][(run'.cmd = "update" /\ run'.outcome = "fatal")
     => UNCHANGED <<historyFile, snapshot, ics, distDir>>]_vars

\* C16 witness: the engine computed a cycle from a readable history with a
\* person to follow, and the update then failed on a snapshot it could not
\* use, in an output directory that exists.
C16_Witness ==
  /\ run.cmd = "update" /\ run.outcome = "fatal"
  /\ Roster # <<>>
  /\ historyFile.state = "ok" /\ Hist # <<>> /\ Truthy(LastPerson(Hist))
  /\ distDir /\ snapshot.state = "malformed"
  /\ ics.state = "ok" /\ Len(ics.events) = Len(Hist)

\* C17: in every state reached from a reset by updates, resets, publishes
\* and roster edits, the snapshot's date-to-person mapping is the history
\* mapping, and the names with a metadata entry in the snapshot are exactly
\* the persons of the history.
C17_SnapshotMirrorsHistory ==
  /\ historyFile.state = "ok"
  /\ snapshot.state = "ok" /\ snapshot.hasDates /\ snapshot.hasTriagers
  /\ Keys(snapshot.dates) = Keys(Hist)
  /\ \A k \in Keys(Hist) : Get(snapshot.dates, k) = PersonOn(Hist, k)
  /\ Keys(snapshot.triagers) = Persons(Hist)

\* C17 witness: two updates under non-empty rosters have assigned two
\* different persons.
C17_Witness ==
  /\ run.cmd = "update" /\ run.outcome = "ok"
  /\ Roster # <<>>
  /\ Len(Hist) >= 2
  /\ Cardinality(Persons(Hist)) >= 2
  /\ Keys(snapshot.triagers) = Persons(Hist)

\* The local calendar day of an instant, and the weekday of a day
\* (0 = Sunday .. 6 = Saturday).
DayOf(t) == (t + tz) \div 24

Weekday(d) == (d + 4) % 7

\* C19: whatever the weekday of its input, getLastSunday returns a date
\* that falls on a Sunday and lies before the input's day by at most 7 days:
\* the Sunday preceding the input.
C19_SundayBefore ==
  weekStart.fn = "getLastSunday"
    => /\ Weekday(DayOf(weekStart.result)) = 0
       /\ DayOf(weekStart.result) < DayOf(weekStart.arg)
       /\ DayOf(weekStart.arg) - DayOf(weekStart.result) <= 7
       /\ DayOf(weekStart.result) = DayBefore(DayOf(weekStart.arg), 0)

\* C19 witness: getLastSunday was called on a Sunday and returned the
\* Sunday one week earlier.
C19_Witness ==
  /\ weekStart.fn = "getLastSunday"
  /\ Weekday(DayOf(weekStart.arg)) = 0
  /\ DayOf(weekStart.result) = DayOf(weekStart.arg) - 7

\* C20: whatever the weekday of its input, getLastMonday returns a date
\* that falls on a Monday, the latest Monday on or before the input's day;
\* for a Monday it returns the input itself, and otherwise an earlier day.
C20_MondayOnOrBefore ==
  weekStart.fn = "getLastMonday"
    => /\ Weekday(DayOf(weekStart.result)) = 1
       /\ DayOf(weekStart.result) = DayOnOrBefore(DayOf(weekStart.arg), 1)
       /\ IF Weekday(DayOf(weekStart.arg)) = 1
          THEN weekStart.result = weekStart.arg
          ELSE DayOf(weekStart.result) < DayOf(weekStart.arg)

\* C20 witness: getLastMonday was called on a Sunday and returned the
\* Monday six days earlier.
C20_Witness ==
  /\ weekStart.fn = "getLastMonday"
  /\ Weekday(DayOf(weekStart.arg)) = 0
  /\ DayOf(weekStart.result) = DayOf(weekStart.arg) - 6

====
